---- MODULE Spec2Model ----
(***************************************************************************)
(* Model of streamlit_app.py: the two response normalizers                 *)
(* (process_prompt_gemini, process_prompt_openai), the batch loop of main  *)
(* and the session state it accumulates into.                              *)
(*                                                                         *)
(* Python values are tagged records:                                       *)
(*   None           [ty |-> "None"]                                        *)
(*   str            [ty |-> "str",  str |-> a string]                      *)
(*   list           [ty |-> "list", items |-> a sequence of values]        *)
(*   object         [ty |-> "obj",  attrs |-> a record attribute |-> value]*)
(* hasattr(o, a) is "a is in the domain of o's record": an attribute may   *)
(* be absent, present and None, or present with a value.                   *)
(***************************************************************************)
EXTENDS Integers, Sequences, FiniteSets, TLC

VARIABLES
    session_results,   \* st.session_state.results
    processed_count,   \* st.session_state.processed_count
    provider,          \* sidebar selectbox
    api_key,           \* sidebar text_input
    prompts_input,     \* text_area contents
    process_button,    \* TRUE in the run triggered by "Process Prompts"
    client,            \* "none" | "ok" | "failed": the client local of the run
    message,           \* what the run reported with st.error / st.success
    prompts,           \* main's local list of trimmed prompts
    results,           \* main's local list of results of the batch
    network            \* provider calls of the run: <<[prompt, outcome]>>

vars == <<session_results, processed_count, provider, api_key, prompts_input,
          process_button, client, message, prompts, results, network>>

-----------------------------------------------------------------------------
(* Bounds of the model and constants of the program *)

\* line 228
MaxPrompts == 50

\* the lines of a short text
MaxLines == 1

\* "Process Prompts" is clicked in a session of at most this many records
MaxPrior == 1

\* the session is followed up to this many records
MaxSession == MaxPrompts

MaxQueries == 2

MaxChunks == 2

MaxParts == 2

MaxOutputs == 2

MaxAnnotations == 2

-----------------------------------------------------------------------------
(* Python values *)

None == [ty |-> "None"]

Str(s) == [ty |-> "str", str |-> s]

List(s) == [ty |-> "list", items |-> s]

Obj(r) == [ty |-> "obj", attrs |-> r]

\* hasattr(o, a)
HasAttr(o, a) == o.ty = "obj" /\ a \in DOMAIN o.attrs

\* bool(x): None, "" and [] are falsy, objects are truthy
Truthy(x) ==
    CASE x.ty = "None" -> FALSE
      [] x.ty = "str"  -> x.str # ""
      [] x.ty = "list" -> x.items # <<>>
      [] OTHER         -> TRUE

\* `for e in x` raises TypeError unless x is a list
Iterable(x) == x.ty = "list"

\* str(x)
PyStr(x) ==
    CASE x.ty = "None" -> Str("None")
      [] x.ty = "str"  -> x
      [] OTHER         -> Str("<object>")

NotIterable == "'NoneType' object is not iterable"

\* s.startswith(p), on strings
StartsWith(s, p) == Len(s) >= Len(p) /\ SubSeq(s, 1, Len(p)) = p

SeqUpTo(S, n) == UNION {[1..k -> S] : k \in 0..n}

-----------------------------------------------------------------------------
(* The result record both normalizers start from *)

NewResult(prompt, prov) ==
    [original_prompt    |-> prompt,
     provider           |-> prov,
     web_search_used    |-> FALSE,
     web_search_queries |-> <<>>,
     cited_sources      |-> <<>>,
     final_response     |-> Str("")]

\* What a function call yields: a value, or an exception with its message
Return(r) == [raised |-> FALSE, msg |-> "", result |-> r]

Raise(m, r) == [raised |-> TRUE, msg |-> m, result |-> r]

-----------------------------------------------------------------------------
(* process_prompt_gemini *)

\* response.candidates[0]
gemini_candidate(response) ==
    IF ~HasAttr(response, "candidates")
    THEN Raise("object has no attribute 'candidates'", None)
    ELSE LET c == response.attrs.candidates IN
         IF c.ty # "list" THEN Raise("'NoneType' object is not subscriptable", None)
         ELSE IF c.items = <<>> THEN Raise("list index out of range", None)
         ELSE Return(c.items[1])

\* gemini_queries without the test of line 48: the flag follows the presence
\* of the query list, not its content
gemini_queries_no_test(gm, result) ==
    IF HasAttr(gm, "web_search_queries")
    THEN LET q == gm.attrs.web_search_queries
             queries == IF q.ty = "list" THEN q.items ELSE <<>> IN
         [result EXCEPT !.web_search_used = TRUE,
                        !.web_search_queries =
                            [k \in 1..Len(queries) |-> PyStr(queries[k])]]
    ELSE result

\* lines 46-50: the queries of the grounding metadata
gemini_queries(gm, result) ==
    IF HasAttr(gm, "web_search_queries") /\ Truthy(gm.attrs.web_search_queries)
    THEN LET queries == gm.attrs.web_search_queries.items IN
         [result EXCEPT !.web_search_used = TRUE,
                        !.web_search_queries =
                            [k \in 1..Len(queries) |-> PyStr(queries[k])]]
    ELSE result

\* lines 57-61: one grounding chunk; reading web.title or web.uri of an object
\* without that attribute raises AttributeError
gemini_chunk(chunk, sources) ==
    IF HasAttr(chunk, "web") /\ Truthy(chunk.attrs.web)
    THEN LET web == chunk.attrs.web IN
         IF ~HasAttr(web, "title")
         THEN Raise("object has no attribute 'title'", sources)
         ELSE IF ~HasAttr(web, "uri")
         THEN Raise("object has no attribute 'uri'", sources)
         ELSE Return(Append(sources, [title |-> web.attrs.title, url |-> web.attrs.uri]))
    ELSE Return(sources)

\* lines 56-61: the loop over the chunks, from chunk k on
RECURSIVE gemini_chunks(_, _, _)
gemini_chunks(chunks, k, sources) ==
    IF k > Len(chunks) THEN Return(sources)
    ELSE LET one == gemini_chunk(chunks[k], sources) IN
         IF one.raised THEN one
         ELSE gemini_chunks(chunks, k + 1, one.result)

\* lines 53-61: the cited sources of the grounding metadata
gemini_sources(gm, result) ==
    IF HasAttr(gm, "grounding_chunks") /\ Truthy(gm.attrs.grounding_chunks)
    THEN LET got == gemini_chunks(gm.attrs.grounding_chunks.items, 1,
                                  result.cited_sources) IN
         IF got.raised THEN Raise(got.msg, result)
         ELSE Return([result EXCEPT !.cited_sources = got.result])
    ELSE Return(result)

\* lines 42-61: the grounding metadata section
gemini_grounding(candidate, result) ==
    IF HasAttr(candidate, "grounding_metadata")
       /\ Truthy(candidate.attrs.grounding_metadata)
    THEN LET gm == candidate.attrs.grounding_metadata IN
         gemini_sources(gm, gemini_queries(gm, result))
    ELSE Return(result)

\* lines 68-71: the loop over the parts, from part k on; the first part that
\* has a text attribute is taken, whatever its value, and the loop breaks
RECURSIVE gemini_parts(_, _, _)
gemini_parts(parts, k, result) ==
    IF k > Len(parts) THEN result
    ELSE IF HasAttr(parts[k], "text")
    THEN [result EXCEPT !.final_response = parts[k].attrs.text]
    ELSE gemini_parts(parts, k + 1, result)

\* lines 64-71: the response text
gemini_text(candidate, result) ==
    IF /\ HasAttr(candidate, "content")
       /\ Truthy(candidate.attrs.content)
       /\ HasAttr(candidate.attrs.content, "parts")
    THEN LET parts == candidate.attrs.content.attrs.parts IN
         IF ~Iterable(parts) THEN Raise(NotIterable, result)
         ELSE Return(gemini_parts(parts.items, 1, result))
    ELSE Return(result)

\* lines 32-73: the normalization of a raw response
gemini_normalize(prompt, response) ==
    LET cand == gemini_candidate(response) IN
    IF cand.raised THEN Raise(cand.msg, NewResult(prompt, "Gemini"))
    ELSE LET g == gemini_grounding(cand.result, NewResult(prompt, "Gemini")) IN
         IF g.raised THEN g
         ELSE gemini_text(cand.result, g.result)

\* lines 17-73: the call (lines 26-30), which may raise, then the
\* normalization; nothing here catches an exception
process_prompt_gemini(prompt, outcome) ==
    IF outcome.raised THEN Raise(outcome.msg, NewResult(prompt, "Gemini"))
    ELSE gemini_normalize(prompt, outcome.response)

-----------------------------------------------------------------------------
(* process_prompt_openai *)

\* lines 93-96: the loop over the output items, from item k on
RECURSIVE openai_queries(_, _, _)
openai_queries(outputs, k, result) ==
    IF k > Len(outputs) THEN result
    ELSE LET output == outputs[k] IN
         IF HasAttr(output, "action") /\ HasAttr(output.attrs.action, "query")
         THEN openai_queries(outputs, k + 1,
                  [result EXCEPT !.web_search_used = TRUE,
                                 !.web_search_queries =
                                     Append(@, output.attrs.action.attrs.query)])
         ELSE openai_queries(outputs, k + 1, result)

\* lines 103-108: the loop over the annotations of one content part
RECURSIVE openai_annotations(_, _, _)
openai_annotations(annotations, k, sources) ==
    IF k > Len(annotations) THEN sources
    ELSE LET annotation == annotations[k] IN
         IF HasAttr(annotation, "url") /\ HasAttr(annotation, "title")
         THEN openai_annotations(annotations, k + 1,
                  Append(sources, [title |-> annotation.attrs.title,
                                   url   |-> annotation.attrs.url]))
         ELSE openai_annotations(annotations, k + 1, sources)

\* lines 101-108: the loop over the content parts of one output item
RECURSIVE openai_content_sources(_, _, _)
openai_content_sources(contents, k, sources) ==
    IF k > Len(contents) THEN Return(sources)
    ELSE LET content == contents[k] IN
         IF HasAttr(content, "annotations")
         THEN IF ~Iterable(content.attrs.annotations)
              THEN Raise(NotIterable, sources)
              ELSE openai_content_sources(contents, k + 1,
                       openai_annotations(content.attrs.annotations.items, 1, sources))
         ELSE openai_content_sources(contents, k + 1, sources)

\* lines 99-108: the loop over the output items; result is a dict changed in
\* place, so what was appended before an exception stays in it
RECURSIVE openai_sources(_, _, _)
openai_sources(outputs, k, result) ==
    IF k > Len(outputs) THEN Return(result)
    ELSE LET output == outputs[k] IN
         IF HasAttr(output, "content")
         THEN IF ~Iterable(output.attrs.content)
              THEN Raise(NotIterable, result)
              ELSE LET got == openai_content_sources(output.attrs.content.items, 1,
                                                     result.cited_sources)
                       now == [result EXCEPT !.cited_sources = got.result] IN
                   IF got.raised THEN Raise(got.msg, now)
                   ELSE openai_sources(outputs, k + 1, now)
         ELSE openai_sources(outputs, k + 1, result)

\* lines 113-116: the loop over the content parts of one output item; break
\* leaves this loop only
RECURSIVE openai_content_text(_, _, _)
openai_content_text(contents, k, result) ==
    IF k > Len(contents) THEN result
    ELSE IF HasAttr(contents[k], "text")
    THEN [result EXCEPT !.final_response = contents[k].attrs.text]
    ELSE openai_content_text(contents, k + 1, result)

\* lines 111-116: the loop over the output items, which goes on after the
\* inner break. The items were iterated by lines 99-108 before.
RECURSIVE openai_text(_, _, _)
openai_text(outputs, k, result) ==
    IF k > Len(outputs) THEN result
    ELSE LET output == outputs[k] IN
         IF HasAttr(output, "content")
         THEN openai_text(outputs, k + 1,
                  openai_content_text(output.attrs.content.items, 1, result))
         ELSE openai_text(outputs, k + 1, result)

\* lines 86-116: the body of the try: the call, then the three loops
openai_try(prompt, outcome) ==
    LET result == NewResult(prompt, "OpenAI") IN
    IF outcome.raised THEN Raise(outcome.msg, result)
    ELSE IF ~HasAttr(outcome.response, "output")
    THEN Raise("object has no attribute 'output'", result)
    ELSE IF ~Iterable(outcome.response.attrs.output)
    THEN Raise(NotIterable, result)
    ELSE LET outputs == outcome.response.attrs.output.items
             s == openai_sources(outputs, 1, openai_queries(outputs, 1, result)) IN
         IF s.raised THEN s
         ELSE Return(openai_text(outputs, 1, s.result))

\* lines 75-121: an exception of the try is caught (lines 118-119): the result
\* built so far gets the error text and is returned
process_prompt_openai(prompt, outcome) ==
    LET t == openai_try(prompt, outcome) IN
    IF t.raised
    THEN Return([t.result EXCEPT !.final_response = Str("Error: " \o t.msg)])
    ELSE t

-----------------------------------------------------------------------------
(* What the provider may answer: the raw responses the normalizers are run  *)
(* on. An optional section is absent, None, empty or filled.                *)

CallOk(response) == [raised |-> FALSE, msg |-> "", response |-> response]

CallFailed(m) == [raised |-> TRUE, msg |-> m, response |-> None]

Providers == {"Gemini", "OpenAI"}

\* Gemini: grounding chunks
Web(title, uri) == Obj([web |-> Obj([title |-> title, uri |-> uri])])

GeminiChunkKinds ==
    { Web(Str("t1"), Str("u1")),
      Web(Str("t2"), Str("u2")),
      Web(Str("t3"), None),                          \* no URL
      Web(None, Str("u4")),                          \* no title
      Obj([web |-> Obj([title |-> Str("t5")])]),     \* web without a uri attribute
      Obj([web |-> None]) }                          \* not a web chunk

GeminiQueryLists ==
    {None} \cup {List(q) : q \in SeqUpTo({Str("q1"), Str("q2")}, MaxQueries)}

GeminiChunkLists ==
    {None} \cup {List(c) : c \in SeqUpTo(GeminiChunkKinds, MaxChunks)}

GeminiGroundings ==
    {Obj([web_search_queries |-> q, grounding_chunks |-> c]) :
        q \in GeminiQueryLists, c \in GeminiChunkLists}
    \cup {Obj([web_search_queries |-> q]) : q \in GeminiQueryLists}
    \cup {Obj([grounding_chunks |-> c]) : c \in GeminiChunkLists}

\* Gemini: content parts
GeminiPartKinds ==
    { Obj([text |-> Str("A")]),
      Obj([text |-> Str("B")]),
      Obj([text |-> None, function_call |-> Str("f")]),  \* text present, None
      Obj([inline_data |-> Str("d")]) }                  \* no text attribute

GeminiContents ==
    { None, Obj([role |-> Str("model")]), Obj([role |-> Str("model"), parts |-> None]) }
    \cup {Obj([role |-> Str("model"), parts |-> List(p)]) :
             p \in SeqUpTo(GeminiPartKinds, MaxParts)}

Candidate(g, c) == Obj([finish_reason |-> Str("STOP"), grounding_metadata |-> g, content |-> c])

GeminiPlain == Obj([role |-> Str("model"), parts |-> List(<<Obj([text |-> Str("A")])>>)])

GeminiGrounded ==
    Obj([web_search_queries |-> List(<<Str("q1")>>),
         grounding_chunks   |-> List(<<Web(Str("t1"), Str("u1"))>>)])

GeminiCoreGroundings ==
    { None, GeminiGrounded,
      Obj([grounding_chunks |-> List(<<Obj([web |-> Obj([title |-> Str("t5")])])>>)]) }

GeminiCoreContents ==
    { None, GeminiPlain, Obj([role |-> Str("model"), parts |-> None]) }

GeminiCandidates ==
    {Candidate(g, c) : g \in GeminiGroundings, c \in GeminiCoreContents}
    \cup {Candidate(g, c) : g \in GeminiCoreGroundings, c \in GeminiContents}
    \cup {Obj([finish_reason |-> Str("STOP"), content |-> c]) : c \in GeminiContents}
    \cup {Obj([finish_reason |-> Str("SAFETY")])}

GeminiResponses ==
    {Obj([candidates |-> List(<<c>>)]) : c \in GeminiCandidates}
    \cup {Obj([candidates |-> None]), Obj([candidates |-> List(<<>>)])}

\* OpenAI: annotations, content parts, output items
Citation(title, url) == Obj([type |-> Str("url_citation"), title |-> title, url |-> url])

OpenAIAnnotationKinds ==
    { Citation(Str("t1"), Str("u1")),
      Citation(Str("t2"), Str("u2")),
      Citation(Str("t3"), None),                                \* no URL
      Citation(Str(""), Str("u4")),                             \* no title
      Obj([type |-> Str("file_citation"), title |-> Str("t5")]) } \* no url attribute

OutputText(text, annotations) ==
    Obj([type |-> Str("output_text"), text |-> text, annotations |-> annotations])

Refusal == Obj([type |-> Str("refusal"), refusal |-> Str("no")])

Message(content) == Obj([type |-> Str("message"), content |-> content])

SearchCall(query) ==
    Obj([type |-> Str("web_search_call"), action |-> Obj([query |-> query])])

OpenAICoreItems ==
    { SearchCall(Str("q1")),
      SearchCall(Str("q2")),
      Obj([type |-> Str("web_search_call"), action |-> Obj([url |-> Str("u1")])]),
      Obj([type |-> Str("web_search_call"), action |-> None]),
      Obj([type |-> Str("reasoning")]),
      Message(None),
      Message(List(<<>>)),
      Message(List(<<OutputText(Str("A"), List(<<Citation(Str("t1"), Str("u1"))>>))>>)),
      Message(List(<<OutputText(Str("B"), List(<<>>))>>)),
      Message(List(<<Refusal, OutputText(Str("A"), List(<<>>))>>)),
      Message(List(<<OutputText(Str("A"), List(<<>>)), OutputText(Str("B"), List(<<>>))>>)),
      Message(List(<<OutputText(None, List(<<>>)), OutputText(Str("A"), List(<<>>))>>)),
      Message(List(<<OutputText(Str("A"), None)>>)) }

OpenAIOutputs ==
    SeqUpTo(OpenAICoreItems, MaxOutputs)
    \cup {<<SearchCall(Str("q1")), Message(List(<<OutputText(Str("A"), List(a))>>))>> :
             a \in SeqUpTo(OpenAIAnnotationKinds, MaxAnnotations)}

OpenAIResponses ==
    {Obj([output |-> List(o)]) : o \in OpenAIOutputs} \cup {Obj([output |-> None])}

\* every outcome of one call
Outcomes(prov) ==
    {CallFailed("quota exceeded")}
    \cup {CallOk(r) : r \in IF prov = "Gemini" THEN GeminiResponses ELSE OpenAIResponses}

GeminiGood == CallOk(Obj([candidates |-> List(<<Candidate(GeminiGrounded, GeminiPlain)>>)]))

OpenAIGood ==
    CallOk(Obj([output |-> List(<<SearchCall(Str("q1")),
        Message(List(<<OutputText(Str("A"), List(<<Citation(Str("t1"), Str("u1"))>>))>>))>>)]))

GoodOutcome(prov) == IF prov = "Gemini" THEN GeminiGood ELSE OpenAIGood

\* the outcomes the batches are run on: a failed call, a grounded answer, an
\* answer the normalization raises on
BatchOutcomes(prov) ==
    IF prov = "Gemini"
    THEN { CallFailed("quota exceeded"),
           GeminiGood,
           CallOk(Obj([candidates |-> List(<<>>)])) }
    ELSE { CallFailed("quota exceeded"),
           OpenAIGood,
           CallOk(Obj([output |-> List(<<SearchCall(Str("q1")), Message(None)>>)])) }

-----------------------------------------------------------------------------
(* main: the text of the prompts *)

\* the characters str.strip() removes
IsSpace(c) == c \in {" ", "\t", "\n", "\r"}

RECURSIVE LStrip(_)
LStrip(s) ==
    IF s # "" /\ IsSpace(SubSeq(s, 1, 1)) THEN LStrip(SubSeq(s, 2, Len(s))) ELSE s

RECURSIVE RStrip(_)
RStrip(s) ==
    IF s # "" /\ IsSpace(SubSeq(s, Len(s), Len(s)))
    THEN RStrip(SubSeq(s, 1, Len(s) - 1)) ELSE s

\* s.strip()
Strip(s) == RStrip(LStrip(s))

\* s.split('\n'): the text up to its first newline is a line, the rest is split
\* in turn
RECURSIVE SplitLines(_, _)
SplitLines(s, lines) ==
    LET newlines == {k \in 1..Len(s) : SubSeq(s, k, k) = "\n"} IN
    IF newlines = {} THEN Append(lines, s)
    ELSE LET first == CHOOSE k \in newlines : \A j \in newlines : k <= j IN
         SplitLines(SubSeq(s, first + 1, Len(s)), Append(lines, SubSeq(s, 1, first - 1)))

\* line 226: [prompt.strip() for prompt in lines if prompt.strip()], from line k on
RECURSIVE StripNonBlank(_, _, _)
StripNonBlank(lines, k, kept) ==
    IF k > Len(lines) THEN kept
    ELSE IF Strip(lines[k]) # "" THEN StripNonBlank(lines, k + 1, Append(kept, Strip(lines[k])))
    ELSE StripNonBlank(lines, k + 1, kept)

\* line 226
parse_prompts(text) == StripNonBlank(SplitLines(text, <<>>), 1, <<>>)

\* too_many with the limit off by one
too_many_at_limit(ps) == Len(ps) >= MaxPrompts

\* line 228
too_many(ps) == Len(ps) > MaxPrompts

-----------------------------------------------------------------------------
(* main: one run of the script *)

\* lines 262-269: the record of a prompt whose call raised
error_result(prompt, prov, msg) ==
    [original_prompt    |-> prompt,
     provider           |-> prov,
     web_search_used    |-> FALSE,
     web_search_queries |-> <<>>,
     cited_sources      |-> <<>>,
     final_response     |-> Str("Error: " \o msg)]

\* loop_iteration that records nothing for a prompt whose call raised
loop_iteration_drop(prov, prompt, outcome, batch) ==
    LET call == IF prov = "Gemini"
                THEN process_prompt_gemini(prompt, outcome)
                ELSE process_prompt_openai(prompt, outcome) IN
    IF call.raised THEN batch ELSE Append(batch, call.result)

\* lines 254-269: the body of the loop for one prompt: results with one more
\* record, the call's or the failure's
loop_iteration(prov, prompt, outcome, batch) ==
    LET call == IF prov = "Gemini"
                THEN process_prompt_gemini(prompt, outcome)
                ELSE process_prompt_openai(prompt, outcome) IN
    IF call.raised
    THEN Append(batch, error_result(prompt, prov, call.msg))
    ELSE Append(batch, call.result)

\* lines 250-271: the loop, from prompt k on
RECURSIVE batch_loop(_, _, _, _, _)
batch_loop(prov, ps, outcomes, k, batch) ==
    IF k > Len(ps) THEN batch
    ELSE LET next == loop_iteration(prov, ps[k], outcomes[k], batch) IN
         \* the test has next computed here, before the loop goes on
         IF next = <<>> THEN batch_loop(prov, ps, outcomes, k + 1, <<>>)
         ELSE batch_loop(prov, ps, outcomes, k + 1, next)

\* client_ready that lets the run go on after a failed construction
client_ready_always(c) == TRUE

\* lines 237-244: the run goes on to the loop only with a client
client_ready(c) == c = "ok"

\* extend_results that assigns the batch instead of extending with it
extend_results_assign(session, batch) == batch

\* line 273
extend_results(session, batch) == session \o batch

\* line 274
add_processed(count, ps) == count + Len(ps)

\* What the user may type
LineKinds == {"", "Q1", " Q2\t"}

RECURSIVE JoinLines(_)
JoinLines(lines) ==
    IF lines = <<>> THEN ""
    ELSE IF Len(lines) = 1 THEN lines[1]
    ELSE lines[1] \o "\n" \o JoinLines(Tail(lines))

InputTexts ==
    {JoinLines(l) : l \in SeqUpTo(LineKinds, MaxLines)}
    \cup {"Q1\n\n Q2\t\nQ1"}
    \cup {JoinLines([k \in 1..(MaxPrompts + 1) |-> "Q1"])}
    \cup {JoinLines([k \in 1..(MaxPrompts + 1) |->
                        IF k = 3 THEN " " ELSE IF k % 2 = 1 THEN "Q1" ELSE " Q2\t"])}

\* line 226 on each of them
Parsed == [text \in InputTexts |-> parse_prompts(text)]

ApiKeys == {"", "sk-key"}

\* What the provider answers to the calls of a batch of n prompts: any
\* outcomes for a short batch; for a long one any outcome of the second call
\* and good answers to the others
OutcomeSeqs(prov, n) ==
    IF n <= MaxLines THEN [1..n -> BatchOutcomes(prov)]
    ELSE {[k \in 1..n |-> IF k = 2 THEN o ELSE GoodOutcome(prov)] :
             o \in BatchOutcomes(prov)}

NoBatch ==
    /\ prompts' = <<>>
    /\ results' = <<>>
    /\ network' = <<>>
    /\ UNCHANGED <<session_results, processed_count>>

\* lines 140-277, "Process Prompts" clicked with the widgets set to inp, key
\* and prov; init_ok: whether the client's constructor returns. A batch is
\* followed while the session stays within MaxSession records.
ProcessPrompts ==
    /\ Len(session_results) <= MaxPrior
    /\ \E inp \in InputTexts, key \in ApiKeys, prov \in Providers :
        LET ps == Parsed[inp] IN
        /\ prompts_input' = inp
        /\ api_key' = key
        /\ provider' = prov
        /\ process_button' = TRUE
        /\ IF Strip(inp) = ""                                     \* line 220
           THEN /\ message' = "" /\ client' = "none" /\ NoBatch
           ELSE IF key = ""                                       \* line 222
           THEN /\ message' = "Please enter your API key in the sidebar."
                /\ client' = "none" /\ NoBatch
           ELSE IF too_many(ps)                                   \* line 228
           THEN /\ message' = "Please limit to 50 prompts maximum."
                /\ client' = "none"
                /\ prompts' = ps /\ results' = <<>> /\ network' = <<>>
                /\ UNCHANGED <<session_results, processed_count>>
           ELSE IF Len(ps) = 0                                    \* line 232
           THEN /\ message' = "Please enter at least one prompt."
                /\ client' = "none"
                /\ prompts' = ps /\ results' = <<>> /\ network' = <<>>
                /\ UNCHANGED <<session_results, processed_count>>
           ELSE \E init_ok \in BOOLEAN :
                LET c == IF init_ok THEN "ok" ELSE "failed" IN
                IF ~client_ready(c)                               \* lines 237-244
                THEN /\ message' = "Failed to initialize client"
                     /\ client' = c
                     /\ prompts' = ps /\ results' = <<>> /\ network' = <<>>
                     /\ UNCHANGED <<session_results, processed_count>>
                ELSE /\ Len(session_results) + Len(ps) <= MaxSession
                     /\ \E outcomes \in OutcomeSeqs(prov, Len(ps)) :
                          LET batch == batch_loop(prov, ps, outcomes, 1, <<>>) IN
                          /\ message' = "Processed prompts successfully!"
                          /\ client' = c
                          /\ prompts' = ps
                          /\ results' = batch
                          /\ network' = [k \in 1..Len(ps) |->
                                            [prompt |-> ps[k], outcome |-> outcomes[k]]]
                          /\ session_results' = extend_results(session_results, batch)
                          /\ processed_count' = add_processed(processed_count, ps)

\* lines 200-203, "Clear All Results" clicked: the session is reset and the
\* script runs again with no button pressed; the widgets keep their values
ClearAllResults ==
    /\ session_results' = <<>>
    /\ processed_count' = 0
    /\ process_button' = FALSE
    /\ client' = "none"
    /\ message' = ""
    /\ prompts' = <<>>
    /\ results' = <<>>
    /\ network' = <<>>
    /\ UNCHANGED <<provider, api_key, prompts_input>>

\* lines 151-154 and the widgets' defaults
Init ==
    /\ session_results = <<>>
    /\ processed_count = 0
    /\ provider = "Gemini"
    /\ api_key = ""
    /\ prompts_input = ""
    /\ process_button = FALSE
    /\ client = "none"
    /\ message = ""
    /\ prompts = <<>>
    /\ results = <<>>
    /\ network = <<>>

Next == ProcessPrompts \/ ClearAllResults

Spec == Init /\ [][Next]_vars

-----------------------------------------------------------------------------
(* One prompt through the loop body, on every raw response: main stands in   *)
(* its loop with the provider's answer to the first prompt in hand.          *)

InitPrompt ==
    /\ session_results = <<>>
    /\ processed_count = 0
    /\ provider \in Providers
    /\ api_key = "sk-key"
    /\ prompts_input = "Q1"
    /\ process_button = TRUE
    /\ client = "ok"
    /\ message = ""
    /\ prompts = <<"Q1">>
    /\ results = <<>>
    /\ network \in {<<[prompt |-> "Q1", outcome |-> o]>> : o \in Outcomes(provider)}

\* lines 254-269 for the next prompt
ProcessOnePrompt ==
    /\ Len(results) < Len(network)
    /\ results' = loop_iteration(provider, prompts[Len(results) + 1],
                                 network[Len(results) + 1].outcome, results)
    /\ UNCHANGED <<session_results, processed_count, provider, api_key, prompts_input,
                   process_button, client, message, prompts, network>>

NextPrompt == ProcessOnePrompt

SpecPrompt == InitPrompt /\ [][NextPrompt]_vars

-----------------------------------------------------------------------------
(* The claims *)

Processed == "Processed prompts successfully!"

ErrorFlavored(result) ==
    result.final_response.ty = "str" /\ StartsWith(result.final_response.str, "Error: ")

\* the call for a prompt raised: in the adapter or in the normalization
CallRaised(prov, call) ==
    IF prov = "Gemini"
    THEN process_prompt_gemini(call.prompt, call.outcome).raised
    ELSE openai_try(call.prompt, call.outcome).raised

IsPrefix(a, b) == Len(a) <= Len(b) /\ SubSeq(b, 1, Len(a)) = a

\* C1: an accepted batch (1 to MaxPrompts prompts, a key, a client) has one
\* result per prompt, in the order of the prompts, whatever calls failed
C1_OneResultPerPrompt ==
    message = Processed =>
        /\ Len(prompts) \in 1..MaxPrompts
        /\ Len(results) = Len(prompts)
        /\ \A i \in 1..Len(prompts) : results[i].original_prompt = prompts[i]

\* a full batch of two different prompts, with a failed call before a good one
C1_Witness ==
    /\ message = Processed
    /\ Len(prompts) = MaxPrompts
    /\ prompts[1] # prompts[2]
    /\ ErrorFlavored(results[2])
    /\ ~ErrorFlavored(results[3])

\* C2: the record of a prompt whose call raised is an error record with no
\* search, no queries and no sources, and the next prompt has its own record
C2_FailureRecord ==
    \A i \in DOMAIN results :
        CallRaised(provider, network[i]) =>
            /\ ErrorFlavored(results[i])
            /\ results[i].web_search_used = FALSE
            /\ results[i].web_search_queries = <<>>
            /\ results[i].cited_sources = <<>>
            /\ (i < Len(network) =>
                   /\ i + 1 \in DOMAIN results
                   /\ results[i + 1].original_prompt = network[i + 1].prompt)

\* C3: web_search_used is TRUE exactly when web_search_queries is not empty,
\* in every record
C3_FlagIffQueries ==
    \A i \in DOMAIN results :
        results[i].web_search_used <=> (results[i].web_search_queries # <<>>)

\* a record that kept its queries when a later step of the normalization raised
C3_Witness ==
    /\ results # <<>>
    /\ results[1].web_search_used
    /\ ErrorFlavored(results[1])

\* the prompts of the text: its lines, trimmed, the blank ones dropped
Submitted == Parsed[prompts_input]

\* C4: a submission with no prompt, with more than MaxPrompts prompts or with
\* no key leaves the session as it was and calls no provider; one of exactly
\* MaxPrompts prompts with a key runs (or stops at the client's construction)
C4_Rejected ==
    /\ [][(process_button' /\ (\/ Len(Submitted') = 0
                               \/ Len(Submitted') > MaxPrompts
                               \/ api_key' = ""))
            => /\ session_results' = session_results
               /\ processed_count' = processed_count
               /\ results' = <<>>
               /\ network' = <<>>]_vars
    /\ [](process_button /\ Len(Submitted) = MaxPrompts /\ api_key # ""
            => \/ message = Processed /\ Len(results) = MaxPrompts
               \/ client = "failed")

\* MaxPrompts + 1 prompts submitted with a key to a session that holds a record
C4_Witness ==
    /\ process_button
    /\ Len(Submitted) = MaxPrompts + 1
    /\ api_key # ""
    /\ session_results # <<>>

\* C9: a failed construction of the client ends the run: no call, no record,
\* the session as it was
C9_InitFailureAborts ==
    /\ [](client = "failed" => network = <<>> /\ results = <<>>)
    /\ [][client' = "failed"
            => /\ session_results' = session_results
               /\ processed_count' = processed_count]_vars

\* the construction failed in a session that holds a record
C9_Witness ==
    /\ client = "failed"
    /\ prompts # <<>>
    /\ session_results # <<>>

\* C10: processed_count is the number of accumulated records; a run appends
\* to them or, clearing, empties them
C10_CountAndAppend ==
    /\ [](processed_count = Len(session_results))
    /\ [][\/ IsPrefix(session_results, session_results')
          \/ session_results' = <<>> /\ processed_count' = 0]_vars
    /\ [][message' = Processed
            => session_results' = session_results \o results']_vars

\* a batch appended to a session that held a record
C10_Witness ==
    /\ message = Processed
    /\ results # <<>>
    /\ Len(session_results) > Len(results)

-----------------------------------------------------------------------------
(* What a raw response reports, read off the response itself *)

\* attribute a of o holds a value: it is there, not None and not empty
HasValue(o, a) == HasAttr(o, a) /\ o.attrs[a].ty = "str" /\ o.attrs[a].str # ""

\* attribute a of o as a sequence: empty when absent, None or no list
ListOf(o, a) == IF HasAttr(o, a) /\ o.attrs[a].ty = "list" THEN o.attrs[a].items ELSE <<>>

RECURSIVE Flatten(_)
Flatten(ss) == IF ss = <<>> THEN <<>> ELSE Head(ss) \o Flatten(Tail(ss))

\* the response was received and the call returned a record of it
Normalized(prov, call) == ~call.outcome.raised /\ ~CallRaised(prov, call)

GeminiMetadata(response) ==
    LET c == response.attrs.candidates.items[1] IN
    IF HasAttr(c, "grounding_metadata") THEN c.attrs.grounding_metadata ELSE None

GeminiCarriesBoth(chunk) ==
    /\ HasAttr(chunk, "web")
    /\ HasValue(chunk.attrs.web, "title")
    /\ HasValue(chunk.attrs.web, "uri")

\* the parts of a Gemini response, in its order
GeminiReportedParts(response) ==
    LET c == response.attrs.candidates.items[1] IN
    IF HasAttr(c, "content") THEN ListOf(c.attrs.content, "parts") ELSE <<>>

\* the content parts of an OpenAI response, in its order
OpenAIReportedParts(response) ==
    LET outputs == response.attrs.output.items IN
    Flatten([k \in 1..Len(outputs) |-> ListOf(outputs[k], "content")])

OpenAICarriesBoth(annotation) ==
    HasValue(annotation, "url") /\ HasValue(annotation, "title")

\* the citations of a response that carry a title and a URL, in its order
ReportedCitations(prov, response) ==
    IF prov = "Gemini"
    THEN LET kept == SelectSeq(ListOf(GeminiMetadata(response), "grounding_chunks"),
                               GeminiCarriesBoth) IN
         [k \in 1..Len(kept) |-> [title |-> kept[k].attrs.web.attrs.title,
                                  url   |-> kept[k].attrs.web.attrs.uri]]
    ELSE LET parts == OpenAIReportedParts(response)
             all  == Flatten([k \in 1..Len(parts) |-> ListOf(parts[k], "annotations")])
             kept == SelectSeq(all, OpenAICarriesBoth) IN
         [k \in 1..Len(kept) |-> [title |-> kept[k].attrs.title, url |-> kept[k].attrs.url]]

BearsText(part) == HasAttr(part, "text") /\ part.attrs.text.ty = "str"

\* the text of the first part of a response that bears text, "" if none does
FirstReportedText(prov, response) ==
    LET parts == SelectSeq(IF prov = "Gemini" THEN GeminiReportedParts(response)
                           ELSE OpenAIReportedParts(response), BearsText) IN
    IF parts = <<>> THEN Str("") ELSE parts[1].attrs.text

\* a citation entry is read without an exception
GeminiReadable(chunk) ==
    HasAttr(chunk, "web") /\ chunk.attrs.web.ty = "obj"
        => HasAttr(chunk.attrs.web, "title") /\ HasAttr(chunk.attrs.web, "uri")

\* the response is an answer whose sections are each there, absent, None or
\* empty: a Gemini response with a candidate, an OpenAI response with a list
\* of output items
OnlyOptionalMissing(prov, response) ==
    IF prov = "Gemini"
    THEN /\ ListOf(response, "candidates") # <<>>
         /\ LET chunks == ListOf(GeminiMetadata(response), "grounding_chunks") IN
            \A k \in 1..Len(chunks) : GeminiReadable(chunks[k])
    ELSE HasAttr(response, "output") /\ response.attrs.output.ty = "list"

\* C5: cited_sources holds the citations of the response that carry both a
\* title and a URL, in its order, and no other entry
C5_CitedSources ==
    \A i \in DOMAIN results :
        Normalized(provider, network[i]) =>
            results[i].cited_sources =
                ReportedCitations(provider, network[i].outcome.response)

\* C6: final_response is the text of the first text-bearing part of the
\* response, and "" when no part bears text
C6_FirstTextWins ==
    \A i \in DOMAIN results :
        Normalized(provider, network[i]) =>
            results[i].final_response =
                FirstReportedText(provider, network[i].outcome.response)

\* C7: a received response whose optional sections are absent or empty is
\* normalized without an exception, into a record that is no error record
C7_AbsenceNeverRaises ==
    \A i \in DOMAIN results :
        (/\ ~network[i].outcome.raised
         /\ OnlyOptionalMissing(provider, network[i].outcome.response))
            => /\ ~CallRaised(provider, network[i])
               /\ ~ErrorFlavored(results[i])

\* C8: final_response is a string in every record, never None
C8_FinalResponseIsString ==
    \A i \in DOMAIN results : results[i].final_response.ty = "str"

====
